---- MODULE Spec2Model ----
(***************************************************************************)
(* Model of mi-billing-linker: src/lib/fileProcessor.ts                    *)
(*   extractBillingData : ZIP archive -> Map<serialNo, BillingData>        *)
(*   processFiles       : MI file x ZIP archive -> ProcessingResult        *)
(*                                                                         *)
(* Text is a sequence of one-character strings, so that toLowerCase,       *)
(* includes, startsWith, endsWith, split and trim are computed on the      *)
(* characters.  A cell is a record [t, s, n]: t is the JavaScript type     *)
(* ("str", "num", "null", "undef"), s the text of a string cell, n the     *)
(* value of a number cell.                                                 *)
(***************************************************************************)
EXTENDS Integers, Sequences, FiniteSets, TLC

(* ------------------------------ bounds --------------------------------- *)

\* largest number of members of the billing archive
MaxFiles == 2

\* largest number of data rows of the MI table
MaxMIRows == 2

\* largest number of columns of a generated billing header row
MaxCols == 3

(* ----------------------------- constants ------------------------------- *)

\* fileData.byteLength < 100
MinFileSize == 100

\* const serialColumnIndex = 5 (0-based) of processFiles
JoinColumn == 5

(* ------------------------------- text ---------------------------------- *)

Upper == <<"A","B","C","D","E","F","G","H","I","J","K","L","M",
           "N","O","P","Q","R","S","T","U","V","W","X","Y","Z">>

Lower == <<"a","b","c","d","e","f","g","h","i","j","k","l","m",
           "n","o","p","q","r","s","t","u","v","w","x","y","z">>

Digits == <<"0","1","2","3","4","5","6","7","8","9">>

\* the white space String.prototype.trim removes
WhiteSpace == {" ", "\t", "\n", "\r"}

LowerChar(c) ==
  IF \E i \in 1..26 : Upper[i] = c
    THEN Lower[CHOOSE i \in 1..26 : Upper[i] = c]
    ELSE c

\* String.prototype.toLowerCase
ToLowerCase(s) == [i \in 1..Len(s) |-> LowerChar(s[i])]

\* String.prototype.includes
Includes(s, sub) ==
  \E i \in 0..(Len(s) - Len(sub)) : SubSeq(s, i + 1, i + Len(sub)) = sub

\* String.prototype.startsWith
StartsWith(s, pre) == Len(pre) <= Len(s) /\ SubSeq(s, 1, Len(pre)) = pre

\* String.prototype.endsWith
EndsWith(s, suf) ==
  Len(suf) <= Len(s) /\ SubSeq(s, Len(s) - Len(suf) + 1, Len(s)) = suf

RECURSIVE TrimStart(_)
TrimStart(s) ==
  IF s # <<>> /\ Head(s) \in WhiteSpace THEN TrimStart(Tail(s)) ELSE s

RECURSIVE TrimEnd(_)
TrimEnd(s) ==
  IF s # <<>> /\ s[Len(s)] \in WhiteSpace
    THEN TrimEnd(SubSeq(s, 1, Len(s) - 1))
    ELSE s

\* String.prototype.trim
Trim(s) == TrimEnd(TrimStart(s))

\* decimal text of a natural number, as String(n) gives it
RECURSIVE NumToText(_)
NumToText(n) ==
  IF n < 10 THEN <<Digits[n + 1]>>
            ELSE NumToText(n \div 10) \o <<Digits[(n % 10) + 1]>>

\* fileName.split('/').pop() || ''
BaseName(fileName) ==
  LET slashes == {i \in 1..Len(fileName) : fileName[i] = "/"}
  IN  IF slashes = {} THEN fileName
      ELSE SubSeq(fileName, (CHOOSE i \in slashes : \A j \in slashes : j <= i) + 1,
                  Len(fileName))

(* ------------------------------- cells --------------------------------- *)

Str(s) == [t |-> "str", s |-> s, n |-> 0]

Num(n) == [t |-> "num", s |-> <<>>, n |-> n]

Null == [t |-> "null", s |-> <<>>, n |-> 0]

Undefined == [t |-> "undef", s |-> <<>>, n |-> 0]

\* row[i] with a 0-based index: undefined past the end of the array
At(row, i) == IF i >= 0 /\ i < Len(row) THEN row[i + 1] ELSE Undefined

\* JavaScript truthiness of a cell
Truthy(c) ==
  CASE c.t = "str" -> c.s # <<>>
    [] c.t = "num" -> c.n # 0
    [] OTHER -> FALSE

\* String(c)
StringOf(c) ==
  CASE c.t = "str" -> c.s
    [] c.t = "num" -> NumToText(c.n)
    [] c.t = "null" -> <<"n","u","l","l">>
    [] OTHER -> <<"u","n","d","e","f","i","n","e","d">>

\* String(c ?? '').trim()
SerialText(c) ==
  Trim(IF c.t \in {"null", "undef"} THEN <<>> ELSE StringOf(c))

(* --------------------------- file names -------------------------------- *)

ExtXlsx == <<".","x","l","s","x">>

ExtXls == <<".","x","l","s">>

ExtCsv == <<".","c","s","v">>

\* isValidExcelFile
isValidExcelFile(fileName) ==
  LET lowerName == ToLowerCase(fileName)
  IN  EndsWith(lowerName, ExtXlsx) \/ EndsWith(lowerName, ExtXls)
        \/ EndsWith(lowerName, ExtCsv)

\* shouldSkipFile
shouldSkipFile(fileName) ==
  LET name == BaseName(fileName)
  IN  \/ StartsWith(name, <<".">>)
      \/ StartsWith(name, <<"~","$">>)
      \/ Includes(fileName, <<"_","_","M","A","C","O","S","X">>)
      \/ Includes(fileName, <<".","D","S","_","S","t","o","r","e">>)

(* ------------------------- the billing dictionary ---------------------- *)
(* A JavaScript Map: a sequence of records in insertion order, with at     *)
(* most one record per serialNo.                                           *)

MapHas(map, key) == \E p \in 1..Len(map) : map[p].serialNo = key

MapGet(map, key) == map[CHOOSE p \in 1..Len(map) : map[p].serialNo = key]

\* mutant: an existing key keeps its first record
MapSetKeepsFirst(map, rec) ==
  IF MapHas(map, rec.serialNo) THEN map ELSE Append(map, rec)

\* Map.prototype.set: an existing key keeps its place and takes the new
\* record, a new key goes to the end
MapSet(map, rec) ==
  IF MapHas(map, rec.serialNo)
    THEN [p \in 1..Len(map) |->
            IF map[p].serialNo = rec.serialNo THEN rec ELSE map[p]]
    ELSE Append(map, rec)

(* ------------------------- extractBillingData -------------------------- *)

ColumnPrefix == <<"C","o","l","u","m","n","_">>

\* the header tests of the headers.forEach callback
IsSerialHeader(header) ==
  /\ Truthy(header)
  /\ header.t = "str"
  /\ \/ Includes(ToLowerCase(header.s), <<"s","e","r","i","a","l">>)
     \/ Includes(ToLowerCase(header.s), <<"n","e","w"," ","s","e","r","i","a","l">>)
     \/ Includes(ToLowerCase(header.s), <<"s","r">>)
     \/ Includes(ToLowerCase(header.s), <<"m","e","t","e","r">>)

\* let serialColumnIndex = 0; headers.forEach(...): every matching header
\* assigns its index, so the last one stays (0-based)
RECURSIVE SerialScan(_, _, _)
SerialScan(headers, index, serialColumnIndex) ==
  IF index >= Len(headers) THEN serialColumnIndex
  ELSE SerialScan(headers, index + 1,
                  IF IsSerialHeader(At(headers, index)) THEN index
                                                        ELSE serialColumnIndex)

\* mutant: the first matching header wins
SerialColumnFirstMatch(headers) ==
  IF \E i \in 0..(Len(headers) - 1) : IsSerialHeader(At(headers, i))
    THEN CHOOSE i \in 0..(Len(headers) - 1) :
           /\ IsSerialHeader(At(headers, i))
           /\ \A j \in 0..(i - 1) : ~IsSerialHeader(At(headers, j))
    ELSE 0

SerialColumnIndex(headers) == SerialScan(headers, 0, 0)

\* String(headers[lastColumnIndex] || `Column_${lastColumnIndex + 1}`)
LastColumnHeader(headers) ==
  LET lastColumnIndex == Len(headers) - 1
  IN  IF Truthy(At(headers, lastColumnIndex))
        THEN StringOf(At(headers, lastColumnIndex))
        ELSE ColumnPrefix \o NumToText(lastColumnIndex + 1)

\* the test that guards billingMap.set
UsableSerial(serialNo) ==
  /\ serialNo # <<>>
  /\ serialNo # <<"n","u","l","l">>
  /\ serialNo # <<"u","n","d","e","f","i","n","e","d">>

\* the records row i (0-based) of jsonData passes to billingMap.set: none
\* or one
RowPuts(jsonData, i) ==
  LET headers == jsonData[1]
      row == jsonData[i + 1]
      serialNo == SerialText(At(row, SerialColumnIndex(headers)))
  IN  IF row = <<>> THEN <<>>
      ELSE IF UsableSerial(serialNo)
        THEN <<[serialNo |-> serialNo,
                lastColumnValue |-> At(row, Len(headers) - 1),
                lastColumnHeader |-> LastColumnHeader(headers)]>>
        ELSE <<>>

\* the body of the row loop for row i (0-based) of jsonData
RowStep(map, jsonData, i) ==
  IF RowPuts(jsonData, i) = <<>> THEN map
  ELSE MapSet(map, RowPuts(jsonData, i)[1])

\* for (let i = 1; i < jsonData.length; i++)
RECURSIVE RowLoop(_, _, _)
RowLoop(map, jsonData, i) ==
  IF i >= Len(jsonData) THEN map
  ELSE RowLoop(RowStep(map, jsonData, i), jsonData, i + 1)

\* mutant: no test of the byte length
EntryParsedNoSizeTest(m) ==
  /\ m.kind # "unreadable"
  /\ m.kind # "corrupt"
  /\ m.kind # "nosheet"
  /\ ~(Len(m.rows) < 2)

\* whether the try block of one archive entry reaches the row loop: the
\* entry's bytes are read, are not under the size threshold, decode to a
\* workbook with a sheet, and the sheet has at least 2 rows
EntryParsed(m) ==
  /\ m.kind # "unreadable"
  /\ ~(m.size < MinFileSize)
  /\ m.kind # "corrupt"
  /\ m.kind # "nosheet"
  /\ ~(Len(m.rows) < 2)

\* mutant: the row loop starts at i = 2
ExtractEntrySkipsFirstRow(map, m) ==
  IF EntryParsed(m) THEN RowLoop(map, m.rows, 2) ELSE map

\* one iteration of for (const fileName of files): try { ... } catch { }
ExtractEntry(map, m) ==
  IF EntryParsed(m) THEN RowLoop(map, m.rows, 1) ELSE map

\* mutant: hidden and system files are not filtered out
FilterFilesKeepsHidden(entries) ==
  SelectSeq([i \in 1..Len(entries) |-> i],
            LAMBDA i : ~entries[i].dir /\ isValidExcelFile(entries[i].name))

\* Object.keys(zip.files).filter(...): the positions of the kept entries
FilterFiles(entries) ==
  SelectSeq([i \in 1..Len(entries) |-> i],
            LAMBDA i : /\ ~entries[i].dir
                       /\ isValidExcelFile(entries[i].name)
                       /\ ~shouldSkipFile(entries[i].name))

\* the billingMap.set calls of one archive entry, in row order (history)
RECURSIVE PutLoop(_, _)
PutLoop(jsonData, i) ==
  IF i >= Len(jsonData) THEN <<>>
  ELSE RowPuts(jsonData, i) \o PutLoop(jsonData, i + 1)

EntryPuts(m) == IF EntryParsed(m) THEN PutLoop(m.rows, 1) ELSE <<>>

(* ----------------------------- processFiles ---------------------------- *)

ErrEmptyArchive == "No valid data found in billing ZIP file. Make sure it contains .xlsx, .xls, or .csv files with data."

ErrEmptyMI == "MI file appears to be empty or has no data rows"

\* error.message of an exception of the archive or spreadsheet codec
ErrZip == "zip: cannot read archive"

ErrMIRead == "mi: cannot read file"

ErrMIDecode == "mi: cannot decode workbook"

ErrNoSheet == "mi: sheet is undefined"

BillingDataLiteral == <<"B","i","l","l","i","n","g","_","D","a","t","a">>

NoResult ==
  [success |-> FALSE, headers |-> <<>>, data |-> <<>>, matchedCount |-> 0,
   unmatchedCount |-> 0, error |-> "none"]

\* the object every failing return of processFiles builds
Failure(error) ==
  [success |-> FALSE, headers |-> <<>>, data |-> <<>>, matchedCount |-> 0,
   unmatchedCount |-> 0, error |-> error]

\* mutant: the literal is used whatever the dictionary holds
NewColumnHeaderLiteral(billingData) == BillingDataLiteral

\* mutant: the header of the last entry of the dictionary
NewColumnHeaderOfLast(billingData) ==
  IF billingData # <<>> /\ billingData[Len(billingData)].lastColumnHeader # <<>>
    THEN billingData[Len(billingData)].lastColumnHeader
    ELSE BillingDataLiteral

\* firstBillingEntry?.lastColumnHeader || 'Billing_Data'
NewColumnHeader(billingData) ==
  IF billingData # <<>> /\ billingData[1].lastColumnHeader # <<>>
    THEN billingData[1].lastColumnHeader
    ELSE BillingDataLiteral

\* mutant: the padding stops one cell short
RECURSIVE PadRowOneShort(_, _)
PadRowOneShort(row, width) ==
  IF Len(row) < width - 1 THEN PadRowOneShort(Append(row, Null), width) ELSE row

\* while (row.length < headers.length - 1) row.push(null)
RECURSIVE PadRow(_, _)
PadRow(row, width) ==
  IF Len(row) < width THEN PadRow(Append(row, Null), width) ELSE row

\* mutant: the join key is not trimmed
JoinKeyNoTrim(row) ==
  IF At(row, JoinColumn).t \in {"null", "undef"} THEN <<>>
  ELSE StringOf(At(row, JoinColumn))

\* the join key of a (padded) MI row
JoinKey(row) == SerialText(At(row, JoinColumn))

\* the row the merge loop pushes to processedData; hdrs is the header row
\* with the new column already appended
MergedRow(jsonRow, hdrs, billingData) ==
  LET row == PadRow(jsonRow, Len(hdrs) - 1)
  IN  IF MapHas(billingData, JoinKey(row))
        THEN Append(row, MapGet(billingData, JoinKey(row)).lastColumnValue)
        ELSE Append(row, Null)

\* whether the merge loop counts the row as matched
RowMatched(jsonRow, hdrs, billingData) ==
  MapHas(billingData, JoinKey(PadRow(jsonRow, Len(hdrs) - 1)))

\* the outcomes of reading and decoding the MI file: an exception with its
\* message, or the rows of the first sheet.  A workbook without a sheet
\* gives sheet_to_json an undefined worksheet, which the codec answers with
\* no rows or with a TypeError, depending on its version.
MIOutcomes(file) ==
  CASE file.kind = "unreadable" -> {[threw |-> TRUE, error |-> ErrMIRead, rows |-> <<>>]}
    [] file.kind = "corrupt" -> {[threw |-> TRUE, error |-> ErrMIDecode, rows |-> <<>>]}
    [] file.kind = "nosheet" -> {[threw |-> TRUE, error |-> ErrNoSheet, rows |-> <<>>],
                                 [threw |-> FALSE, error |-> "none", rows |-> <<>>]}
    [] OTHER -> {[threw |-> FALSE, error |-> "none", rows |-> file.rows]}

(* ------------------------------ inputs --------------------------------- *)
(* Tables are what XLSX.utils.sheet_to_json(ws, {header: 1, defval: null,  *)
(* blankrows: false}) returns: rows of cells, the header row first.        *)

NameA == <<"a",".","x","l","s","x">>

NameB == <<"b",".","c","s","v">>

NameUpper == <<"C",".","X","L","S">>

NameText == <<"n","o","t","e","s",".","t","x","t">>

NameDot == <<"d","/",".","h",".","c","s","v">>

NameLock == <<"d","/","~","$","a",".","x","l","s","x">>

NameMac == <<"_","_","M","A","C","O","S","X","/","a",".","x","l","s","x">>

NameStore == <<"t",".","D","S","_","S","t","o","r","e",".","c","s","v">>

NameDir == <<"d","/">>

\* the tie-break table: the serial column is "Serial Code" (index 2)
TableTie ==
  << <<Str(<<"I","D">>), Str(<<"N","e","w"," ","S","e","r","i","a","l"," ","N","o",".">>), Str(<<"S","e","r","i","a","l"," ","C","o","d","e">>), Str(<<"k","W","h">>)>>,
     <<Num(1), Str(<<"N","1">>), Str(<<"A","1","0","0">>), Num(42)>> >>

\* two serials, one of them padded with white space
TableSerial ==
  << <<Str(<<"S","e","r","i","a","l">>), Str(<<"A","m","t">>)>>,
     <<Str(<<"A","1","0","0">>), Num(7)>>,
     <<Str(<<" "," ","S","1"," "," ">>), Num(9)>> >>

\* one serial defined by two rows of the same file
TableDup ==
  << <<Str(<<"S","R"," ","N","O">>), Str(<<"B","i","l","l">>)>>,
     <<Str(<<"S","1">>), Num(1)>>,
     <<Str(<<"S","1">>), Num(2)>> >>

\* numeric and literal "null" serials, blank header of the last column
TableMeter ==
  << <<Str(<<"M","e","t","e","r">>), Null>>,
     <<Num(7), Num(3)>>,
     <<Str(<<"n","u","l","l">>), Num(4)>> >>

\* no header names a serial column (column 0 is used) and the only data row
\* has no serial
TableBlankKey ==
  << <<Num(5), Str(<<"V","a","l","u","e">>)>>,
     <<Null, Num(5)>> >>

\* a header row and no data row
TableHeaderOnly == << <<Str(<<"S","e","r","i","a","l">>), Str(<<"A","m","t">>)>> >>

BillingTables ==
  {TableTie, TableSerial, TableDup, TableMeter, TableBlankKey, TableHeaderOnly,
   <<>>}

\* header cells for generated header rows: matching by each substring, in
\* either case, not matching, blank and numeric
HeaderCells ==
  {Str(<<"S","e","r","i","a","l"," ","N","o">>), Str(<<"S","R">>), Str(<<"M","E","T","E","R">>), Str(<<"k","W","h">>), Null, Num(5)}

\* a table with the given header row and one data row K1, K2, ...
TableOf(hdr) ==
  <<hdr, [j \in 1..Len(hdr) |-> Str(<<"K", Digits[j + 1]>>)]>>

GeneratedTables ==
  {TableOf(h) : h \in UNION {[1..n -> HeaderCells] : n \in 1..MaxCols}}

Member(name, dir, size, kind, rows) ==
  [name |-> name, dir |-> dir, size |-> size, kind |-> kind, rows |-> rows]

\* the archive members the model draws from: every table under an eligible
\* name, every kind of name, the sizes around the threshold, and the
\* failures of reading and decoding
Members ==
  {Member(NameA, FALSE, 2048, "ok", t) : t \in BillingTables}
    \cup {Member(NameB, FALSE, 2048, "ok", t) :
            t \in {TableSerial, TableDup, TableMeter, TableBlankKey}}
    \cup {Member(n, FALSE, 2048, "ok", TableSerial) :
            n \in {NameUpper, NameText, NameDot, NameLock, NameMac, NameStore}}
    \cup {Member(NameA, FALSE, z, "ok", TableSerial) : z \in {50, 99, 100}}
    \cup {Member(NameB, FALSE, 2048, k, <<>>) :
            k \in {"unreadable", "corrupt", "nosheet"}}
    \cup {Member(NameDir, TRUE, 0, "ok", <<>>)}

\* zip.files: member names are the keys of an object, hence distinct
Archives ==
  {a \in UNION {[1..n -> Members] : n \in 0..MaxFiles} :
     \A i, j \in 1..Len(a) : a[i].name = a[j].name => i = j}

Filler == Str(<<"x">>)

HeadersSix == <<Str(<<"a">>), Str(<<"b">>), Str(<<"c">>), Str(<<"d">>), Str(<<"e">>), Str(<<"S","N">>)>>

HeadersThree == <<Str(<<"a">>), Str(<<"b">>), Str(<<"c">>)>>

KeyRow(cell) == <<Filler, Filler, Filler, Filler, Filler, cell>>

\* MI data rows: join keys that are plain, padded, numeric, null, and rows
\* that are shorter or longer than the header row
MIRows ==
  {KeyRow(Str(<<"S","1">>)), KeyRow(Str(<<" "," ","S","1"," "," ">>)), KeyRow(Str(<<"A","1","0","0">>)), KeyRow(Num(7)),
   KeyRow(Null), <<Filler>>, KeyRow(Str(<<"S","1">>)) \o <<Filler>>}

MIFile(kind, rows) == [kind |-> kind, rows |-> rows]

MITables ==
  {MIFile("ok", <<h>> \o r) :
     h \in {HeadersSix, HeadersThree},
     r \in UNION {[1..n -> MIRows] : n \in 0..MaxMIRows}}
    \cup {MIFile(k, <<>>) : k \in {"ok", "unreadable", "corrupt", "nosheet"}}

\* the MI file that goes with every archive
MIFew ==
  {MIFile("ok", <<HeadersSix, KeyRow(Str(<<" "," ","S","1"," "," ">>)),
                  KeyRow(Str(<<"A","1","0","0">>))>>)}

\* a few archives to go with every MI file
ArchivesFew ==
  {[ok |-> TRUE, entries |-> <<Member(NameA, FALSE, 2048, "ok", TableSerial),
                               Member(NameB, FALSE, 2048, "ok", TableMeter)>>],
   [ok |-> TRUE, entries |-> <<Member(NameA, FALSE, 2048, "ok", TableTie)>>]}

(* ------------------------------- state --------------------------------- *)

VARIABLES
  zip,             \* the billing archive: whether JSZip.loadAsync succeeds, and zip.files
  mi,              \* the MI file
  pc,              \* the position of the processFiles call
  files,           \* the kept entries of the archive (positions in zip.entries)
  fi,              \* the position in files of the entry the loop is at
  billingMap,      \* the dictionary
  jsonData,        \* the rows of the MI file
  headers,         \* the MI header row with the new column
  processedData,   \* the merged rows so far
  matchedCount,
  unmatchedCount,
  ri,              \* the loop index i of the merge loop
  result,          \* the ProcessingResult returned
  puts,            \* history: the calls of billingMap.set, in order
  logged,          \* the console.log of each entry's serial and last column
  miRead           \* history: whether the MI file was read

\* the state of the page component Index and of the calls it has started
VARIABLES
  miFile,          \* useState: the selected MI file, "null" for none
  billingZipFile,  \* useState: the selected archive, "null" for none
  status,          \* useState: 'idle', 'processing', 'success' or 'error'
  statusMessage,   \* useState
  statusDetails,   \* useState: <<>> for undefined, else <<text>>
  uiResult,        \* useState result: <<>> for null, else <<ProcessingResult>>
  calls,           \* the processFiles calls still pending, with their files
  resultOf,        \* history: the files the stored result was computed from
  downloaded,      \* history: the files whose result was last written out
  resetWhilePending, \* history: handleReset ran while a call was pending
  sinceReset       \* history: handleReset ran and no handleProcess since

coreVars ==
  <<zip, mi, pc, files, fi, billingMap, jsonData, headers, processedData,
    matchedCount, unmatchedCount, ri, result, puts, logged, miRead>>

uiVars ==
  <<miFile, billingZipFile, status, statusMessage, statusDetails, uiResult,
    calls, resultOf, downloaded, resetWhilePending, sinceReset>>

vars == <<coreVars, uiVars>>

\* the state of Index after its first render, nothing selected or started
UIIdle ==
  /\ miFile = "null"
  /\ billingZipFile = "null"
  /\ status = "idle"
  /\ statusMessage = ""
  /\ statusDetails = <<>>
  /\ uiResult = <<>>
  /\ calls = <<>>
  /\ resultOf = <<>>
  /\ downloaded = <<>>
  /\ resetWhilePending = FALSE
  /\ sinceReset = FALSE

Init ==
  /\ \/ /\ zip \in {[ok |-> TRUE, entries |-> a] : a \in Archives}
                 \cup {[ok |-> FALSE, entries |-> <<>>]}
        /\ mi \in MIFew
     \/ /\ zip \in ArchivesFew
        /\ mi \in MITables
     \/ /\ zip \in {[ok |-> TRUE,
                     entries |-> <<Member(NameA, FALSE, 2048, "ok", t)>>] :
                      t \in GeneratedTables}
        /\ mi = MIFile("ok", <<HeadersSix, KeyRow(Str(<<"K","1">>)),
                               KeyRow(Str(<<"K","2">>))>>)
  /\ pc = "loadZip"
  /\ files = <<>>
  /\ fi = 1
  /\ billingMap = <<>>
  /\ jsonData = <<>>
  /\ headers = <<>>
  /\ processedData = <<>>
  /\ matchedCount = 0
  /\ unmatchedCount = 0
  /\ ri = 1
  /\ result = NoResult
  /\ puts = <<>>
  /\ logged = <<>>
  /\ miRead = FALSE
  /\ UIIdle

\* return from processFiles with a failure object (a return statement or
\* the catch block)
ReturnFailure(error) ==
  /\ pc' = "done"
  /\ result' = Failure(error)

\* const zip = await JSZip.loadAsync(zipFile) and the filter of its entries;
\* a rejected load is caught by the catch block of processFiles
LoadZip ==
  /\ pc = "loadZip"
  /\ UNCHANGED uiVars
  /\ IF zip.ok
       THEN /\ files' = FilterFiles(zip.entries)
            /\ pc' = "extract"
            /\ UNCHANGED result
       ELSE /\ ReturnFailure(ErrZip)
            /\ UNCHANGED files
  /\ UNCHANGED <<zip, mi, fi, billingMap, jsonData, headers, processedData,
                 matchedCount, unmatchedCount, ri, puts, logged,
                 miRead>>

\* mutant: no try/catch around the body, so that an entry that cannot be
\* read or decoded ends processFiles in its catch block
ProcessEntryNoCatch ==
  /\ pc = "extract"
  /\ UNCHANGED uiVars
  /\ fi <= Len(files)
  /\ IF \/ zip.entries[files[fi]].kind = "unreadable"
        \/ /\ zip.entries[files[fi]].kind = "corrupt"
           /\ ~(zip.entries[files[fi]].size < MinFileSize)
       THEN /\ ReturnFailure("billing: cannot decode entry")
            /\ UNCHANGED <<billingMap, puts, logged, fi>>
       ELSE /\ billingMap' = ExtractEntry(billingMap, zip.entries[files[fi]])
            /\ puts' = puts \o [k \in 1..Len(EntryPuts(zip.entries[files[fi]])) |->
                                  [file |-> files[fi],
                                   rec |-> EntryPuts(zip.entries[files[fi]])[k]]]
            /\ logged' = logged
            /\ fi' = fi + 1
            /\ UNCHANGED <<pc, result>>
  /\ UNCHANGED <<zip, mi, files, jsonData, headers, processedData,
                 matchedCount, unmatchedCount, ri, miRead>>

\* one iteration of for (const fileName of files)
ProcessEntry ==
  /\ pc = "extract"
  /\ UNCHANGED uiVars
  /\ fi <= Len(files)
  /\ LET m == zip.entries[files[fi]]
         sets == EntryPuts(m)
     IN  /\ billingMap' = ExtractEntry(billingMap, m)
         /\ puts' = puts \o [k \in 1..Len(sets) |->
                               [file |-> files[fi], rec |-> sets[k]]]
         /\ logged' =
              IF EntryParsed(m)
                THEN Append(logged,
                            [file |-> files[fi],
                             serialColumnIndex |-> SerialColumnIndex(m.rows[1]),
                             lastColumnIndex |-> Len(m.rows[1]) - 1])
                ELSE logged
  /\ fi' = fi + 1
  /\ UNCHANGED <<zip, mi, pc, files, jsonData, headers, processedData,
                 matchedCount, unmatchedCount, ri, result, miRead>>

\* mutant: no test of billingData.size
ExtractReturnNoSizeTest ==
  /\ pc = "extract"
  /\ UNCHANGED uiVars
  /\ fi > Len(files)
  /\ pc' = "parseMI"
  /\ UNCHANGED <<zip, mi, files, fi, billingMap, jsonData, headers,
                 processedData, matchedCount, unmatchedCount, ri, result,
                 puts, logged, miRead>>

\* return billingMap, and the size test of processFiles
ExtractReturn ==
  /\ pc = "extract"
  /\ UNCHANGED uiVars
  /\ fi > Len(files)
  /\ IF Len(billingMap) = 0
       THEN ReturnFailure(ErrEmptyArchive)
       ELSE /\ pc' = "parseMI"
            /\ UNCHANGED result
  /\ UNCHANGED <<zip, mi, files, fi, billingMap, jsonData, headers,
                 processedData, matchedCount, unmatchedCount, ri, puts, logged,
                 miRead>>

\* Step 2: read and decode the MI file, test its row count, build headers
ParseMI ==
  /\ pc = "parseMI"
  /\ UNCHANGED uiVars
  /\ miRead' = TRUE
  /\ \E o \in MIOutcomes(mi) :
       IF o.threw
         THEN /\ ReturnFailure(o.error)
              /\ UNCHANGED <<jsonData, headers, ri>>
         ELSE /\ jsonData' = o.rows
              /\ IF Len(o.rows) < 2
                   THEN /\ ReturnFailure(ErrEmptyMI)
                        /\ UNCHANGED <<headers, ri>>
                   ELSE /\ headers' = Append(o.rows[1], Str(NewColumnHeader(billingMap)))
                        /\ ri' = 1
                        /\ pc' = "merge"
                        /\ UNCHANGED result
  /\ UNCHANGED <<zip, mi, files, fi, billingMap, processedData, matchedCount,
                 unmatchedCount, puts, logged>>

\* mutant: a row without a billing entry is skipped, neither pushed nor
\* counted
MergeRowDropsUnmatched ==
  /\ pc = "merge"
  /\ UNCHANGED uiVars
  /\ ri < Len(jsonData)
  /\ IF RowMatched(jsonData[ri + 1], headers, billingMap)
       THEN /\ matchedCount' = matchedCount + 1
            /\ processedData' =
                 Append(processedData,
                        MergedRow(jsonData[ri + 1], headers, billingMap))
       ELSE UNCHANGED <<matchedCount, processedData>>
  /\ ri' = ri + 1
  /\ UNCHANGED <<zip, mi, pc, files, fi, billingMap, jsonData, headers,
                 unmatchedCount, result, puts, logged, miRead>>

\* one iteration of for (let i = 1; i < jsonData.length; i++)
MergeRow ==
  /\ pc = "merge"
  /\ UNCHANGED uiVars
  /\ ri < Len(jsonData)
  /\ processedData' =
       Append(processedData, MergedRow(jsonData[ri + 1], headers, billingMap))
  /\ IF RowMatched(jsonData[ri + 1], headers, billingMap)
       THEN /\ matchedCount' = matchedCount + 1
            /\ UNCHANGED unmatchedCount
       ELSE /\ unmatchedCount' = unmatchedCount + 1
            /\ UNCHANGED matchedCount
  /\ ri' = ri + 1
  /\ UNCHANGED <<zip, mi, pc, files, fi, billingMap, jsonData, headers,
                 result, puts, logged,
                 miRead>>

\* return { success: true, headers, data: processedData, ... }
ReturnSuccess ==
  /\ pc = "merge"
  /\ UNCHANGED uiVars
  /\ ~(ri < Len(jsonData))
  /\ pc' = "done"
  /\ result' = [success |-> TRUE, headers |-> headers, data |-> processedData,
                matchedCount |-> matchedCount,
                unmatchedCount |-> unmatchedCount, error |-> "none"]
  /\ UNCHANGED <<zip, mi, files, fi, billingMap, jsonData, headers,
                 processedData, matchedCount, unmatchedCount, ri, puts, logged,
                 miRead>>

Next ==
  \/ LoadZip
  \/ ProcessEntry
  \/ ExtractReturn
  \/ ParseMI
  \/ MergeRow
  \/ ReturnSuccess

Spec == Init /\ [][Next]_vars

(* ------------------------------ UI shell -------------------------------- *)
(* The page component Index: two file selections, the Process, Download    *)
(* and Reset buttons, and the continuation of handleProcess that runs when  *)
(* an awaited processFiles call resolves.  A call is given the files that   *)
(* were selected when it started; pending calls resolve in any order.       *)

MaxPending == 2

MIChoices == {"mi1", "mi2"}

ZipChoices == {"zip1", "zipEmpty"}

MsgProcessing == "Processing files..."

MsgComplete == "Processing complete"

MsgFailed == "Processing failed"

MatchesFound == <<" ","m","a","t","c","h","e","s"," ","f","o","u","n","d">>

\* what processFiles resolves to for the files of a call: the failure of an
\* archive without data, or a success with one matched row
UIResultOf(m, z) ==
  IF z = "zipEmpty"
    THEN Failure(ErrEmptyArchive)
    ELSE [success |-> TRUE,
          headers |-> Append(HeadersSix, Str(BillingDataLiteral)),
          data |-> <<Append(KeyRow(Str(<<"K","1">>)), Num(7))>>,
          matchedCount |-> 1, unmatchedCount |-> 0, error |-> "none"]

\* mutant: the Process button ignores the status
canProcessNoStatusTest ==
  miFile # "null" /\ billingZipFile # "null"

\* const canProcess = miFile && billingZipFile && status !== 'processing'
canProcess ==
  miFile # "null" /\ billingZipFile # "null" /\ status # "processing"

\* the sequence without its i-th element
RemoveAt(seq, i) ==
  SubSeq(seq, 1, i - 1) \o SubSeq(seq, i + 1, Len(seq))

\* the core variables do not move while the page is used
InitUI ==
  /\ zip = [ok |-> FALSE, entries |-> <<>>]
  /\ mi = MIFile("ok", <<>>)
  /\ pc = "loadZip"
  /\ files = <<>>
  /\ fi = 1
  /\ billingMap = <<>>
  /\ jsonData = <<>>
  /\ headers = <<>>
  /\ processedData = <<>>
  /\ matchedCount = 0
  /\ unmatchedCount = 0
  /\ ri = 1
  /\ result = NoResult
  /\ puts = <<>>
  /\ logged = <<>>
  /\ miRead = FALSE
  /\ UIIdle

\* onFileSelect={setMiFile}
SelectMI(f) ==
  /\ miFile' = f
  /\ UNCHANGED <<billingZipFile, status, statusMessage, statusDetails,
                 uiResult, calls, resultOf, downloaded, resetWhilePending,
                 sinceReset>>
  /\ UNCHANGED coreVars

\* onFileSelect={setBillingZipFile}
SelectZip(f) ==
  /\ billingZipFile' = f
  /\ UNCHANGED <<miFile, status, statusMessage, statusDetails, uiResult,
                 calls, resultOf, downloaded, resetWhilePending, sinceReset>>
  /\ UNCHANGED coreVars

\* a click on the Process button, disabled unless canProcess: handleProcess
\* up to its await.  With both files selected the first branch of
\* handleProcess is not taken.
ClickProcess ==
  /\ canProcess
  /\ Len(calls) < MaxPending
  /\ status' = "processing"
  /\ statusMessage' = MsgProcessing
  /\ statusDetails' = <<>>
  /\ calls' = Append(calls, [mi |-> miFile, zip |-> billingZipFile])
  /\ sinceReset' = FALSE
  /\ UNCHANGED <<miFile, billingZipFile, uiResult, resultOf, downloaded,
                 resetWhilePending>>
  /\ UNCHANGED coreVars

\* the i-th pending call resolves: handleProcess after its await.
\* processFiles catches what it throws, so the catch block is not entered.
Complete(i) ==
  /\ i \in 1..Len(calls)
  /\ LET processingResult == UIResultOf(calls[i].mi, calls[i].zip)
     IN  IF processingResult.success
           THEN /\ status' = "success"
                /\ statusMessage' = MsgComplete
                /\ statusDetails' =
                     <<NumToText(processingResult.matchedCount) \o MatchesFound>>
                /\ uiResult' = <<processingResult>>
                /\ resultOf' = <<calls[i]>>
           ELSE /\ status' = "error"
                /\ statusMessage' = (IF processingResult.error = ""
                                       THEN MsgFailed
                                       ELSE processingResult.error)
                /\ uiResult' = <<>>
                /\ resultOf' = <<>>
                /\ UNCHANGED statusDetails
  /\ calls' = RemoveAt(calls, i)
  /\ resetWhilePending' = (resetWhilePending /\ calls' # <<>>)
  /\ UNCHANGED <<miFile, billingZipFile, downloaded, sinceReset>>
  /\ UNCHANGED coreVars

\* a click on the Download button, shown while result is set
ClickDownload ==
  /\ uiResult # <<>>
  /\ downloaded' = resultOf
  /\ UNCHANGED <<miFile, billingZipFile, status, statusMessage, statusDetails,
                 uiResult, calls, resultOf, resetWhilePending, sinceReset>>
  /\ UNCHANGED coreVars

\* a click on the Reset button, shown while a file or a result is set
ClickReset ==
  /\ miFile # "null" \/ billingZipFile # "null" \/ uiResult # <<>>
  /\ miFile' = "null"
  /\ billingZipFile' = "null"
  /\ status' = "idle"
  /\ statusMessage' = ""
  /\ statusDetails' = <<>>
  /\ uiResult' = <<>>
  /\ resultOf' = <<>>
  /\ resetWhilePending' = (resetWhilePending \/ calls # <<>>)
  /\ sinceReset' = TRUE
  /\ UNCHANGED <<calls, downloaded>>
  /\ UNCHANGED coreVars

NextUI ==
  \/ \E f \in MIChoices : SelectMI(f)
  \/ \E f \in ZipChoices : SelectZip(f)
  \/ ClickProcess
  \/ \E i \in 1..MaxPending : Complete(i)
  \/ ClickDownload
  \/ ClickReset

SpecUI == InitUI /\ [][NextUI]_vars

(* ------------------------------ claims --------------------------------- *)

\* the call has returned a success result
Succeeded == pc = "done" /\ result.success

\* text contains sub (stated on its own, for the claims)
ClaimContains(text, sub) ==
  \E i \in 1..(Len(text) - Len(sub) + 1) :
    \A k \in 1..Len(sub) : text[i + k - 1] = sub[k]

\* C1: for every processFiles call that returns success = true,
\* matchedCount + unmatchedCount equals the number of MI data rows (the rows
\* of the MI file after the header row) and the number of rows of the
\* returned data.
C1_CountsCoverRows ==
  Succeeded =>
    /\ result.matchedCount + result.unmatchedCount = Len(mi.rows) - 1
    /\ result.matchedCount + result.unmatchedCount = Len(result.data)

\* a successful merge with a matched and an unmatched row
C1_Witness ==
  Succeeded /\ result.matchedCount >= 1 /\ result.unmatchedCount >= 1

\* the serial column as the claim states it: 0 when no header matches,
\* otherwise the largest index of a header whose lowercased text contains
\* one of the four substrings
ClaimSerialMatch(header) ==
  /\ header.t = "str"
  /\ LET text == ToLowerCase(header.s) IN
     \E sub \in {<<"s","e","r","i","a","l">>, <<"n","e","w"," ","s","e","r","i","a","l">>, <<"s","r">>, <<"m","e","t","e","r">>} :
       ClaimContains(text, sub)

ClaimSerialColumn(hdr) ==
  LET matching == {i \in 0..(Len(hdr) - 1) : ClaimSerialMatch(hdr[i + 1])}
  IN  IF matching = {} THEN 0
      ELSE CHOOSE i \in matching : \A j \in matching : j <= i

TieHeaders == TableTie[1]

\* C2: the serial column extractBillingData uses for a billing file is 0
\* when no header matches and otherwise the index of the last matching
\* header; every record it stores is keyed by the cell of that column; for
\* ["ID","New Serial No.","Serial Code","kWh"] the column is 2.
C2_SerialColumnIsLastMatch ==
  /\ \A k \in 1..Len(logged) :
       LET hdr == zip.entries[logged[k].file].rows[1]
       IN  /\ logged[k].serialColumnIndex = ClaimSerialColumn(hdr)
           /\ hdr = TieHeaders => logged[k].serialColumnIndex = 2
  /\ \A k \in 1..Len(puts) :
       LET rows == zip.entries[puts[k].file].rows
           col == ClaimSerialColumn(rows[1])
       IN  \E r \in 2..Len(rows) :
             puts[k].rec.serialNo = SerialText(At(rows[r], col))

\* the file of the example was processed, and its record is keyed by the
\* "Serial Code" cell
C2_Witness ==
  /\ \E k \in 1..Len(logged) :
       /\ zip.entries[logged[k].file].rows[1] = TieHeaders
       /\ logged[k].serialColumnIndex = 2
  /\ \E k \in 1..Len(puts) : puts[k].rec.serialNo = <<"A","1","0","0">>

\* the position in puts of the last call of billingMap.set for a serial
LastPut(serialNo) ==
  CHOOSE k \in 1..Len(puts) :
    /\ puts[k].rec.serialNo = serialNo
    /\ \A l \in 1..Len(puts) : puts[l].rec.serialNo = serialNo => l <= k

\* C3: the dictionary entry of a serial holds the value and the value-column
\* header of the billing row processed last for it (in the same or a later
\* file), never those of an earlier row.
C3_LastWriterWins ==
  /\ \A p \in 1..Len(billingMap) :
       /\ \E k \in 1..Len(puts) : puts[k].rec.serialNo = billingMap[p].serialNo
       /\ billingMap[p] = puts[LastPut(billingMap[p].serialNo)].rec
  /\ \A k \in 1..Len(puts) : MapHas(billingMap, puts[k].rec.serialNo)
  /\ \A k, l \in 1..Len(puts) : k <= l => puts[k].file <= puts[l].file

\* one serial was defined by rows of two files with different values and
\* headers, and extraction has finished
C3_Witness ==
  /\ pc = "done"
  /\ \E k, l \in 1..Len(puts) :
       /\ k < l
       /\ puts[k].file # puts[l].file
       /\ puts[k].rec.serialNo = puts[l].rec.serialNo
       /\ puts[k].rec.lastColumnValue # puts[l].rec.lastColumnValue
       /\ puts[k].rec.lastColumnHeader # puts[l].rec.lastColumnHeader

\* the base name of a path: its part after the last "/"
ClaimBase(name) ==
  LET start == CHOOSE i \in 1..(Len(name) + 1) :
                 /\ \A j \in i..Len(name) : name[j] # "/"
                 /\ i = 1 \/ name[i - 1] = "/"
  IN  SubSeq(name, start, Len(name))

\* a recognized tabular extension
ClaimRecognized(name) ==
  \E ext \in {ExtXlsx, ExtXls, ExtCsv} :
    /\ Len(name) >= Len(ext)
    /\ ToLowerCase(SubSeq(name, Len(name) - Len(ext) + 1, Len(name))) = ext

\* a hidden or system artifact: base name starting with "." or "~$", a path
\* under a __MACOSX directory, or the file name .DS_Store
ClaimHidden(name) ==
  LET base == ClaimBase(name) IN
  \/ Len(base) >= 1 /\ base[1] = "."
  \/ Len(base) >= 2 /\ SubSeq(base, 1, 2) = <<"~","$">>
  \/ \E i \in 1..(Len(name) - 8) :
       /\ SubSeq(name, i, i + 8) = <<"_","_","M","A","C","O","S","X","/">>
       /\ i = 1 \/ name[i - 1] = "/"
  \/ base = <<".","D","S","_","S","t","o","r","e">>

\* a member that is ineligible or empty, as C4 lists them
ClaimIneligibleOrEmpty(m) ==
  \/ m.dir
  \/ ~ClaimRecognized(m.name)
  \/ ClaimHidden(m.name)
  \/ m.size < 100
  \/ m.kind = "nosheet"
  \/ m.kind = "ok" /\ Len(m.rows) < 2

\* C4: for an archive whose members are all ineligible or empty the
\* dictionary stays empty and processFiles returns the empty-archive failure
\* without reading the MI file.
C4_EmptyArchiveFails ==
  (zip.ok /\ \A i \in 1..Len(zip.entries) : ClaimIneligibleOrEmpty(zip.entries[i]))
    => /\ billingMap = <<>>
       /\ pc # "parseMI" /\ pc # "merge"
       /\ ~miRead
       /\ pc = "done" => result = Failure(ErrEmptyArchive)

\* the call returned for an archive of two such members, one of them a
\* hidden file with data, the other not hidden
C4_Witness ==
  /\ pc = "done"
  /\ zip.ok
  /\ Len(zip.entries) = 2
  /\ \A i \in 1..2 : ClaimIneligibleOrEmpty(zip.entries[i])
  /\ \E i \in 1..2 :
       /\ ClaimHidden(zip.entries[i].name)
       /\ ClaimRecognized(zip.entries[i].name)
       /\ Len(zip.entries[i].rows) >= 2
  /\ \E i \in 1..2 : ~ClaimHidden(zip.entries[i].name) /\ ~zip.entries[i].dir

\* a serial text that names a record: not empty, not "null", not "undefined"
ClaimUsableText(text) ==
  text \notin {<<>>, <<"n","u","l","l">>, <<"u","n","d","e","f","i","n","e","d">>}

\* the text of the serial cell of data row r (1-based, the header is row 1)
ClaimSerialText(rows, r) ==
  SerialText(At(rows[r], ClaimSerialColumn(rows[1])))

\* a non-empty eligible billing file: kept by the filter, not under the size
\* threshold, decoded, with a header row and at least one data row
ClaimNonEmptyEligible(m) ==
  /\ ~m.dir
  /\ ClaimRecognized(m.name)
  /\ ~shouldSkipFile(m.name)
  /\ m.size >= 100
  /\ m.kind = "ok"
  /\ Len(m.rows) >= 2

\* C5 as stated: an archive with a non-empty eligible billing file gives a
\* non-empty dictionary, and processFiles does not return the empty-archive
\* failure.
C5_Original ==
  (pc = "done" /\ zip.ok
     /\ \E i \in 1..Len(zip.entries) : ClaimNonEmptyEligible(zip.entries[i]))
    => billingMap # <<>> /\ result.error # ErrEmptyArchive

\* the file has a data row whose serial cell names a record
ClaimHasUsableRow(m) ==
  LET col == ClaimSerialColumn(m.rows[1])
  IN  \E r \in 2..Len(m.rows) :
        m.rows[r] # <<>> /\ ClaimUsableText(SerialText(At(m.rows[r], col)))

\* C5 (amended): an archive with a non-empty eligible billing file that has
\* a data row whose serial-column cell, as trimmed text, is not empty, "null"
\* or "undefined" gives a non-empty dictionary, and processFiles does not
\* return the empty-archive failure.
C5_UsableRowGivesDictionary ==
  (zip.ok /\ \E i \in 1..Len(zip.entries) :
               ClaimNonEmptyEligible(zip.entries[i]) /\ ClaimHasUsableRow(zip.entries[i]))
    => /\ pc \in {"parseMI", "merge", "done"} => billingMap # <<>>
       /\ pc = "extract" /\ fi > Len(files) => billingMap # <<>>
       /\ pc = "done" => result.error # ErrEmptyArchive

\* the call returned for an archive with one file that has a usable row and
\* one non-empty eligible file that has none
C5_Witness ==
  /\ pc = "done"
  /\ zip.ok
  /\ \E i \in 1..Len(zip.entries) :
       ClaimNonEmptyEligible(zip.entries[i]) /\ ClaimHasUsableRow(zip.entries[i])
  /\ \E i \in 1..Len(zip.entries) :
       ClaimNonEmptyEligible(zip.entries[i]) /\ ~ClaimHasUsableRow(zip.entries[i])
  /\ billingMap # <<>>

\* an input with which processFiles cannot merge
FatalInput ==
  \/ ~zip.ok
  \/ billingMap = <<>>
  \/ mi.kind # "ok"
  \/ Len(mi.rows) < 2

\* C6: processFiles never raises past its call boundary: a call that has
\* not returned can take its next step, every fatal path (archive or MI
\* decode failure, empty dictionary, MI table under 2 rows) returns
\* success = false, and a failure result has an error text, headers = [],
\* data = [] and both counts 0.
C6_FailureIsStructured ==
  /\ pc # "done" =>
       \/ pc = "extract" /\ fi <= Len(files)
       \/ ENABLED (LoadZip \/ ExtractReturn \/ ParseMI \/ MergeRow \/ ReturnSuccess)
  /\ (pc = "done" /\ FatalInput) => ~result.success
  /\ (pc = "done" /\ ~result.success) =>
       /\ result.error # "none"
       /\ result.headers = <<>>
       /\ result.data = <<>>
       /\ result.matchedCount = 0
       /\ result.unmatchedCount = 0
       /\ FatalInput

\* the call failed on the MI file after a dictionary was built
C6_Witness ==
  /\ pc = "done"
  /\ ~result.success
  /\ billingMap # <<>>
  /\ miRead
  /\ result.error \in {ErrEmptyMI, ErrMIDecode}

\* an entry whose bytes cannot be read or decoded
ClaimFailing(m) ==
  m.kind = "unreadable" \/ (m.kind = "corrupt" /\ m.size >= 100)

\* the entries the filter keeps
Kept == {files[k] : k \in 1..Len(files)}

\* C7: when reading or decoding one eligible entry fails, the records of
\* every other eligible entry, before or after it, are in the dictionary
\* extractBillingData returns, and the failing entry alone does not make
\* processFiles fail.
C7_EntryFailureIsLocal ==
  (zip.ok /\ pc # "loadZip" /\ \E i \in Kept : ClaimFailing(zip.entries[i]))
    => /\ (fi > Len(files)) =>
            \A j \in Kept :
              (zip.entries[j].size >= 100 /\ zip.entries[j].kind = "ok") =>
                \A r \in 2..Len(zip.entries[j].rows) :
                  ClaimUsableText(ClaimSerialText(zip.entries[j].rows, r)) =>
                    MapHas(billingMap, ClaimSerialText(zip.entries[j].rows, r))
       /\ (pc = "done" /\ mi.kind = "ok" /\ Len(mi.rows) >= 2
             /\ \E j \in Kept : ClaimNonEmptyEligible(zip.entries[j])
                                  /\ ClaimHasUsableRow(zip.entries[j]))
            => result.success

\* the first entry failed, the second one gave records, the call succeeded
C7_Witness ==
  /\ Succeeded
  /\ Len(files) = 2
  /\ ClaimFailing(zip.entries[files[1]])
  /\ \E k \in 1..Len(puts) : puts[k].file = files[2]

\* C8: a member contributes records only if it is not a directory, has a
\* recognized extension, is not a hidden or system artifact and has at least
\* 100 bytes; a 50-byte member contributes nothing.
C8_OnlyEligibleContribute ==
  \A k \in 1..Len(puts) :
    LET m == zip.entries[puts[k].file]
    IN  /\ ~m.dir
        /\ ClaimRecognized(m.name)
        /\ ~ClaimHidden(m.name)
        /\ m.size >= 100

\* extraction finished for an archive with a 50-byte member that has usable
\* rows under an eligible name, and another member gave the records
C8_Witness ==
  /\ pc = "done"
  /\ puts # <<>>
  /\ \E i \in 1..Len(zip.entries) :
       /\ zip.entries[i].size = 50
       /\ zip.entries[i].kind = "ok"
       /\ ClaimRecognized(zip.entries[i].name)
       /\ ~ClaimHidden(zip.entries[i].name)
       /\ Len(zip.entries[i].rows) >= 2
       /\ ClaimHasUsableRow(zip.entries[i])

\* the merged rows so far
MergedSoFar == IF pc = "done" THEN result.data ELSE processedData

\* the join key of MI data row i: the cell at index 5 as trimmed text
ClaimKey(i) == SerialText(At(mi.rows[i + 1], 5))

ClaimInDictionary(key) == \E p \in 1..Len(billingMap) : billingMap[p].serialNo = key

\* C9: a merged MI data row has the record's value appended and is counted
\* as matched if and only if the trimmed text of its cell at index 5 is a
\* key of the dictionary; otherwise null is appended and it is counted as
\* unmatched.
C9_MatchIffKeyInDictionary ==
  (pc = "merge" \/ Succeeded) =>
    /\ \A i \in 1..Len(MergedSoFar) :
         LET row == MergedSoFar[i]
         IN  IF ClaimInDictionary(ClaimKey(i))
               THEN \E p \in 1..Len(billingMap) :
                      /\ billingMap[p].serialNo = ClaimKey(i)
                      /\ row[Len(row)] = billingMap[p].lastColumnValue
               ELSE row[Len(row)] = Null
    /\ (IF pc = "done" THEN result.matchedCount ELSE matchedCount) =
         Cardinality({i \in 1..Len(MergedSoFar) : ClaimInDictionary(ClaimKey(i))})
    /\ (IF pc = "done" THEN result.unmatchedCount ELSE unmatchedCount) =
         Cardinality({i \in 1..Len(MergedSoFar) : ~ClaimInDictionary(ClaimKey(i))})

\* a returned row whose cell "  S1  " matched the key "S1"
C9_Witness ==
  /\ Succeeded
  /\ \E i \in 1..Len(result.data) :
       /\ At(mi.rows[i + 1], 5) = Str(<<" "," ","S","1"," "," ">>)
       /\ ClaimInDictionary(<<"S","1">>)
       /\ result.data[i][Len(result.data[i])] # Null
       /\ result.matchedCount >= 1

\* C10: in a successful merge one header is appended to the MI header row,
\* and it is the valueColumnHeader of the first-enumerated entry of the
\* dictionary.
C10_HeaderOfFirstEntry ==
  Succeeded =>
    /\ Len(result.headers) = Len(mi.rows[1]) + 1
    /\ result.headers[Len(result.headers)] = Str(billingMap[1].lastColumnHeader)

\* a successful merge with a dictionary whose first and last entries have
\* different value-column headers
C10_Witness ==
  /\ Succeeded
  /\ Len(billingMap) >= 2
  /\ billingMap[1].lastColumnHeader # billingMap[Len(billingMap)].lastColumnHeader

\* the larger of two numbers
ClaimMax(a, b) == IF a >= b THEN a ELSE b

\* C11: in a successful merge the returned headers are the MI header row
\* followed by one appended header, and the i-th returned row is the i-th MI
\* data row, its cells unchanged and in order, padded on the right with nulls
\* up to the number of MI headers, followed by one appended cell.
C11_RowsKeptAndPadded ==
  Succeeded =>
    /\ Len(result.headers) = Len(mi.rows[1]) + 1
    /\ SubSeq(result.headers, 1, Len(mi.rows[1])) = mi.rows[1]
    /\ Len(result.data) = Len(mi.rows) - 1
    /\ \A i \in 1..Len(result.data) :
         LET orig == mi.rows[i + 1]
             row == result.data[i]
             width == ClaimMax(Len(orig), Len(mi.rows[1]))
         IN  /\ Len(row) = width + 1
             /\ SubSeq(row, 1, Len(orig)) = orig
             /\ \A j \in (Len(orig) + 1)..width : row[j] = Null

\* a successful merge of two different rows, one of them shorter than the
\* header row and padded
C11_Witness ==
  /\ Succeeded
  /\ Len(result.data) = 2
  /\ mi.rows[2] # mi.rows[3]
  /\ Len(mi.rows[2]) < Len(mi.rows[1])
  /\ Len(result.data[1]) = Len(mi.rows[1]) + 1
  /\ result.data[1][Len(mi.rows[1])] = Null

AppendedHeader == result.headers[Len(result.headers)]

\* the matched rows get values of records that carry the appended header
ClaimValuesUnderTheirHeader ==
  \A i \in 1..Len(result.data) :
    \A p \in 1..Len(billingMap) :
      billingMap[p].serialNo = ClaimKey(i) =>
        /\ result.data[i][Len(result.data[i])] = billingMap[p].lastColumnValue
        /\ Str(billingMap[p].lastColumnHeader) = AppendedHeader

\* C14 as stated: in every successful merge each value appended to a matched
\* row comes from a record whose valueColumnHeader is the appended header,
\* for any archive of billing files.
C14_Original == Succeeded => ClaimValuesUnderTheirHeader

\* C14 (amended): in every successful merge in which all records of the
\* dictionary carry the same valueColumnHeader, each value appended to a
\* matched row comes from a record whose valueColumnHeader is the appended
\* header.
C14_OneHeaderLabelsValues ==
  (Succeeded /\ \A p, q \in 1..Len(billingMap) :
                  billingMap[p].lastColumnHeader = billingMap[q].lastColumnHeader)
    => ClaimValuesUnderTheirHeader

\* a successful merge with a matched row and a dictionary built from two
\* files that have the same last-column header
C14_Witness ==
  /\ Succeeded
  /\ result.matchedCount >= 1
  /\ \E k, l \in 1..Len(puts) : puts[k].file # puts[l].file
  /\ \A p, q \in 1..Len(billingMap) :
       billingMap[p].lastColumnHeader = billingMap[q].lastColumnHeader

\* C12: the page does not keep processFiles calls from overlapping.  The
\* only guard is the status test of canProcess, which handleReset undoes:
\* two calls are pending together only after handleReset ran while a call
\* was pending, and such a state is reached.
C12_OverlapOnlyAfterReset ==
  Len(calls) >= 2 => resetWhilePending

\* a second call was started while an earlier one is still pending
C12_Witness ==
  /\ Len(calls) >= 2
  /\ status = "processing"

\* C15: after handleReset has run, the stored result stays null and the
\* status stays 'idle' until the next handleProcess starts, also when a
\* processFiles call started before the reset resolves afterwards.
C15_ResetStaysUntilProcess ==
  sinceReset => (uiResult = <<>> /\ status = "idle")

====
